---- MODULE Spec2Model ----
(***************************************************************************)
(* Model of fw_upgrade.py: the two firmware-upgrade orchestrators          *)
(* console_upgrade (telnet console through a Brainbox) and snmp_upgrade    *)
(* (SNMP get/set).  Under Spec one invocation of one orchestrator is one   *)
(* behaviour and the device's answers are chosen nondeterministically at   *)
(* every call of the transport.  Under SpecTwice the device follows a      *)
(* script fixed at the start and the orchestrator is invoked twice with    *)
(* the same arguments.  `ops` is the sequence of transport and clock calls *)
(* the current invocation has issued so far (the calls, not the answers).  *)
(***************************************************************************)
EXTENDS Integers, Sequences, FiniteSets, TLC

VARIABLES
    device,        \* the simulated device: free, or the script of its answers
    call,          \* number of the current invocation (1 or 2)
    prev,          \* what the previous invocation returned, where, and the calls it issued
    fn,            \* the orchestrator invoked: "console_upgrade" | "snmp_upgrade"
    target_fw,     \* parameter target_fw of the invocation
    pc,            \* position in the function body
    result,        \* "pending" | "True" | "None": the value returned; "raised": an
                   \* exception left the function
    returned_at,   \* source line of the return statement taken, or of the call whose
                   \* exception left the function (0 while running)
    ops,           \* calls issued so far by this invocation (see Call)
    lastResp,      \* the device's answer to the latest transport call
    dut_open,      \* the telnet session is open (connect() succeeded, close() not called)
    timeout,       \* timeout in force on dut.conn (0: never set by this code)
    while_count,   \* console_upgrade: local while_count (-1: not yet assigned)
    connected,     \* console_upgrade: connect() returned true
    reboot_seen,   \* console_upgrade: expect("reboot: Restarting system") returned
    prompt_seen,   \* console_upgrade: attempt (1..4) on which expect("login:") returned, 0 if none
    status,        \* snmp_upgrade: local status (-1: not yet assigned an int)
    while_counter, \* snmp_upgrade: local while_counter (-1: not yet assigned)
    sys_descr,     \* snmp_upgrade: local sys_descr
    first_status   \* snmp_upgrade: the value the first download-status read returned

vars == <<device, call, prev, fn, target_fw, pc, result, returned_at, ops, lastResp, dut_open, timeout,
          while_count, connected, reboot_seen, prompt_seen,
          status, while_counter, sys_descr, first_status>>

envVars == <<device, call, prev, fn, target_fw>>
consoleVars == <<dut_open, timeout, while_count, connected, reboot_seen, prompt_seen>>
snmpVars == <<status, while_counter, sys_descr, first_status>>

----------------------------------------------------------------------------
(* Bounds of the model. *)

\* download-status codes the simulated device may report: 1..MaxStatus
MaxStatus == 5
\* length of the answer scripts of a scripted device (repeated cyclically)
ScriptLen == 2

(* Program constants. *)
PromptAttempts == 4
StatusPolls == 20
DescrPolls == 20
RebootTimeout == 120
\* one long timeout is used throughout
PromptTimeout_Uniform == RebootTimeout
PromptTimeout == 5
DefaultTimeout == 30
PaceSleep == 2
\* the short pacing delay is used instead of the settle period
SettleSleep_Paced == PaceSleep
SettleSleep == 120
RetrySleep == 30
FirstCheckSleep == 5
StartSleep == 60
PollSleep == 30
HttpMode == 2
StartDl == 1
InProgress == 1
Completed == 3

brainbox_ip == "10.55.69.106"
atom_port == 9001
cm_ip == "10.11.142.122"
TargetFws == {"F5685_2.40.3a.pkgtb", "LG-RDK_5.7.36.p7b"}

RebootMarker == "reboot: Restarting system"
LoginMarker == "login:"

cmd_dl_server ==
    "dmcli eRT setv Device.DeviceInfo.X_RDKCENTRAL-COM_FirmwareDownloadURL string "
    \o "https://gateway-dl.lab.nl.dmdsdp.com/"
cmd_fw_filename(fw) ==
    "dmcli eRT setv Device.DeviceInfo.X_RDKCENTRAL-COM_FirmwareToDownload string \""
    \o fw \o "\""
cmd_trigger ==
    "dmcli eRT setv Device.DeviceInfo.X_RDKCENTRAL-COM_FirmwareDownloadNow bool true"

oid_sys_descr == ".1.3.6.1.2.1.1.1.0"
oid_http_mode == ".1.3.6.1.2.1.69.1.3.8.0"
oid_fw_filename == ".1.3.6.1.2.1.69.1.3.2.0"
oid_dl_server == ".1.3.6.1.2.1.69.1.3.1.0"
oid_start_dl == ".1.3.6.1.2.1.69.1.3.3.0"
oid_dl_status == ".1.3.6.1.2.1.69.1.3.4.0"
ip_server == "172.30.144.122"
\* the directory prefix is left out
fw_path_NoDir(fw) == fw
fw_path(fw) == "firmware/" \o fw

----------------------------------------------------------------------------
(* Values exchanged with the transports: a type tag, an integer payload    *)
(* and a text payload.                                                     *)

Val(t, i, s) == [type |-> t, i |-> i, s |-> s]
None == Val("NoneType", 0, "")
Integer(n) == Val("Integer", n, "")
OctetString(s) == Val("OctetString", 0, s)
IpAddress(s) == Val("IpAddress", 0, s)
Bool(b) == Val("bool", IF b THEN 1 ELSE 0, "")
Returned == Val("returned", 0, "")
Raised(kind) == Val("raised", 0, kind)
NoResp == Val("", 0, "")

\* what get() of the simulated device may answer
SnmpValues ==
    {None}
    \cup {Integer(n) : n \in 1..MaxStatus}
    \cup {OctetString(s) : s \in {"", "None", "1", "LG-RDK_5.7.36"}}
    \cup {IpAddress(ip_server)}
\* what set() may answer
SetAcks == {None, Integer(1)}
\* what dut.execute() may answer
ExecuteResults == {None, OctetString("Execution succeed.")}
\* how dut.conn.expect() / dut.conn.send() may end
ExpectOutcomes == {Returned, Raised("TimeoutError"), Raised("EOFError")}
SendOutcomes == {Returned, Raised("EOFError")}

\* a call issued by the code: operation, its identifier / text argument, and the
\* value passed (type tag, text, number)
Call(op, arg, n) == [op |-> op, arg |-> arg, type |-> "", text |-> "", n |-> n]
Sleep(n) == Call("sleep", "", n)
Get(oid) == Call("execute_get", oid, 0)
Set(oid, v) == [op |-> "execute_set", arg |-> oid, type |-> v.type, text |-> v.s, n |-> v.i]

----------------------------------------------------------------------------
(* Pure pieces of the two functions. *)

Digit(d) == CASE d = 0 -> "0" [] d = 1 -> "1" [] d = 2 -> "2" [] d = 3 -> "3"
              [] d = 4 -> "4" [] d = 5 -> "5" [] d = 6 -> "6" [] d = 7 -> "7"
              [] d = 8 -> "8" [] d = 9 -> "9"

RECURSIVE IntStr(_)
IntStr(n) == IF n < 10 THEN Digit(n) ELSE IntStr(n \div 10) \o Digit(n % 10)

\* Python's str() of a value returned by execute_get
Str(v) == CASE v.type = "NoneType" -> "None"
            [] v.type = "Integer" -> IntStr(v.i)
            [] OTHER -> v.s

\* the connect() result is not checked
ConnectFailed_Unchecked(ok) == FALSE

\* line 40: if not dut.connect()
ConnectFailed(ok) == ~ok

\* only a timeout is caught
ExpectFailed_TimeoutOnly(out) == out.type = "raised" /\ out.s = "TimeoutError"

\* lines 71-73: try: expect(...) except Exception
ExpectFailed(out) == out.type = "raised"

\* the handler names the timeout only: a dropped connection is not caught
Catches_TimeoutOnly(kind) == kind = "TimeoutError"

\* lines 73, 90: except Exception (TimeoutError and EOFError are Exceptions)
Catches(kind) == kind \in {"TimeoutError", "EOFError"}

\* off by one: a fifth attempt is made
PromptLoopCond_OneMore(wc) == wc <= PromptAttempts

\* line 86: while while_count < 4
PromptLoopCond(wc) == wc < PromptAttempts

\* off by one: the exhausted budget is not recognised
PromptOutcome_Above(wc) == IF wc > PromptAttempts THEN "None" ELSE "True"

\* off by one: a prompt seen on the last attempt is reported as a failure
PromptOutcome_LastLost(wc) == IF wc >= PromptAttempts - 1 THEN "None" ELSE "True"

\* lines 102-107: the value console_upgrade returns after the loop
PromptOutcome(wc) == IF wc >= PromptAttempts THEN "None" ELSE "True"

\* line 155 / 173: type(status) == Integer
IsInteger(v) == v.type = "Integer"

\* a status that is already "completed" is let through
NotStarted_AllowCompleted(s) == s # InProgress /\ s # Completed

\* line 162: status != 1
NotStarted(s) == s # InProgress

\* the loop runs its whole budget whatever the status
MonitorCond_BudgetOnly(wc, s) == wc < StatusPolls

\* the attempt budget is forgotten: the loop runs for as long as the status is 1
MonitorCond_StatusOnly(wc, s) == s = InProgress

\* line 171: while while_counter < 20 and status == 1
MonitorCond(wc, s) == wc < StatusPolls /\ s = InProgress

\* an exhausted budget with the status still in progress is let through
NotCompleted_AllowInProgress(s) == s # Completed /\ s # InProgress

\* an unanswered poll wipes the tracked status
NextStatus_LostOnSilence(s, new_status) ==
    IF new_status # None /\ IsInteger(new_status) THEN new_status.i ELSE -1

\* lines 173-177: the tracked status after a poll that returned new_status
NextStatus(s, new_status) ==
    IF new_status # None /\ IsInteger(new_status) THEN new_status.i ELSE s

\* line 181: status != 3
NotCompleted(s) == s # Completed

\* line 188: while while_counter < 20 and len(sys_descr) == 0
ConfirmCond(wc, sd) == wc < DescrPolls /\ Len(sd) = 0

\* line 190: len(sd_value) > 0 and sd_value != "None"
HasDescr(sd_value) == Len(sd_value) > 0 /\ sd_value # "None"

----------------------------------------------------------------------------
(* Observations on the calls issued. *)

\* number of calls of `op` with argument `arg` in seq
CountIn(seq, op, arg) ==
    Cardinality({k \in 1..Len(seq) : seq[k].op = op /\ seq[k].arg = arg})

\* number of calls of `op` in seq
CountOp(seq, op) ==
    Cardinality({k \in 1..Len(seq) : seq[k].op = op})

\* number of sleeps of n seconds in seq
CountSleep(seq, n) ==
    Cardinality({k \in 1..Len(seq) : seq[k].op = "sleep" /\ seq[k].n = n})

Closes == CountOp(ops, "close")
Sends == CountOp(ops, "send")
Executes == CountOp(ops, "execute")
Sets == CountOp(ops, "execute_set")
\* the timeout in force on dut.conn when the k-th call is issued (0: never set)
TimeoutAt(k) ==
    LET sets == {j \in 1..(k - 1) : ops[j].op = "set_timeout"}
    IN IF sets = {} THEN 0
       ELSE ops[CHOOSE j \in sets : \A i \in sets : i <= j].n
\* the command texts passed to dut.execute, in the order of the calls
ExecutedCommands ==
    LET IsExecute(c) == c.op = "execute"
        calls == SelectSeq(ops, IsExecute)
    IN [k \in 1..Len(calls) |-> calls[k].arg]
RebootExpects == CountIn(ops, "expect", RebootMarker)
LoginExpects == CountIn(ops, "expect", LoginMarker)
StatusReads == CountIn(ops, "execute_get", oid_dl_status)
DescrReads == CountIn(ops, "execute_get", oid_sys_descr)
Console == fn = "console_upgrade"
Snmp == fn = "snmp_upgrade"
Done == pc = "done"

----------------------------------------------------------------------------
(* The simulated device.  A free device may give any answer at any call; a *)
(* scripted device gives the k-th call of a kind the k-th answer of its    *)
(* script for that kind (cyclically), whichever invocation issues it.      *)

FreeDevice ==
    [scripted |-> FALSE, connect |-> TRUE, execute |-> None, reboot |-> Returned,
     prompt |-> <<>>, ack |-> None, status |-> <<>>, descr |-> <<>>]

Cyclic(script, k) == script[(k % Len(script)) + 1]

Scripts(S) == [1..ScriptLen -> S]

PromptAnswerSet == [s : SendOutcomes, e : ExpectOutcomes]
ScriptedStatusValues == {None, Integer(InProgress), Integer(Completed), Integer(MaxStatus)}
ScriptedDescrValues == {None, OctetString(""), OctetString("LG-RDK_5.7.36")}

ConsoleDevices ==
    [scripted : {TRUE}, connect : BOOLEAN, execute : ExecuteResults,
     reboot : ExpectOutcomes, prompt : Scripts(PromptAnswerSet),
     ack : {None}, status : {<<>>}, descr : {<<>>}]

SnmpDevices ==
    [scripted : {TRUE}, connect : {TRUE}, execute : {None}, reboot : {Returned},
     prompt : {<<>>}, ack : SetAcks,
     status : Scripts(ScriptedStatusValues), descr : Scripts(ScriptedDescrValues)]

\* line 40: what dut.connect() may return
ConnectAnswers == IF device.scripted THEN {device.connect} ELSE BOOLEAN
\* lines 48, 56, 64: what dut.execute() may return
ExecuteAnswers == IF device.scripted THEN {device.execute} ELSE ExecuteResults
\* line 72: how expect(reboot marker) may end
RebootAnswers == IF device.scripted THEN {device.reboot} ELSE ExpectOutcomes
\* lines 88-89: how send and expect("login:") of one attempt may end
PromptAnswers ==
    IF device.scripted THEN {Cyclic(device.prompt, Sends)} ELSE PromptAnswerSet
\* lines 133, 138, 143, 148: what execute_set may return
SetAnswers == IF device.scripted THEN {device.ack} ELSE SetAcks
\* lines 134, 139, 144, 149: what the read-back may return
CheckAnswers == IF device.scripted THEN {device.ack} ELSE SnmpValues
\* lines 154, 172: what execute_get(oid_dl_status) may return
StatusAnswers ==
    IF device.scripted THEN {Cyclic(device.status, StatusReads)} ELSE SnmpValues
\* line 189: what execute_get(oid_sys_descr) may return
DescrAnswers ==
    IF device.scripted THEN {Cyclic(device.descr, DescrReads)} ELSE SnmpValues


----------------------------------------------------------------------------
\* the state at the entry of an invocation, before its first statement
Entry ==
    /\ pc = "start"
    /\ result = "pending"
    /\ returned_at = 0
    /\ ops = <<>>
    /\ lastResp = NoResp
    /\ dut_open = FALSE
    /\ timeout = 0
    /\ while_count = -1
    /\ connected = FALSE
    /\ reboot_seen = FALSE
    /\ prompt_seen = 0
    /\ status = -1
    /\ while_counter = -1
    /\ sys_descr = ""
    /\ first_status = NoResp

NoPrev == [result |-> "pending", returned_at |-> 0, ops |-> <<>>]

Init ==
    /\ device = FreeDevice
    /\ call = 1
    /\ prev = NoPrev
    /\ fn \in {"console_upgrade", "snmp_upgrade"}
    /\ target_fw \in TargetFws
    /\ Entry

InitTwice ==
    /\ \/ fn = "console_upgrade" /\ device \in ConsoleDevices
       \/ fn = "snmp_upgrade" /\ device \in SnmpDevices
    /\ call = 1
    /\ prev = NoPrev
    /\ target_fw \in TargetFws
    /\ Entry

Return(value, line) ==
    /\ result' = value
    /\ returned_at' = line
    /\ pc' = "done"

\* an exception raised at `line` is not handled and leaves the function
Propagate(line) ==
    /\ result' = "raised"
    /\ returned_at' = line
    /\ pc' = "done"

Running(label) ==
    /\ pc' = label
    /\ UNCHANGED <<result, returned_at>>

----------------------------------------------------------------------------
(* console_upgrade *)

\* lines 39-42: dut = telnet.TELNET(...); if not dut.connect(): return None
Connect ==
    /\ fn = "console_upgrade" /\ pc = "start"
    /\ \E ok \in ConnectAnswers :
        /\ ops' = Append(ops, Call("connect", brainbox_ip, atom_port))
        /\ lastResp' = Bool(ok)
        /\ connected' = ok
        /\ dut_open' = ok
        /\ IF ConnectFailed(ok) THEN Return("None", 42) ELSE Running("set_dl_server")
    /\ UNCHANGED envVars
    /\ UNCHANGED <<timeout, while_count, reboot_seen, prompt_seen>>
    /\ UNCHANGED snmpVars

\* a command without a response ends the upgrade
SetDlServerUrl_AbortOnNone ==
    /\ fn = "console_upgrade" /\ pc = "set_dl_server"
    /\ \E retval \in ExecuteAnswers :
        /\ lastResp' = retval
        /\ IF retval = None
           THEN /\ ops' = Append(ops, Call("execute", cmd_dl_server, 0))
                /\ Return("None", 50)
           ELSE /\ ops' = ops \o <<Call("execute", cmd_dl_server, 0), Sleep(PaceSleep)>>
                /\ Running("set_fw_filename")
    /\ UNCHANGED envVars
    /\ UNCHANGED consoleVars
    /\ UNCHANGED snmpVars

\* lines 44-51: dut.execute(<download URL>); time.sleep(2)
SetDlServerUrl ==
    /\ fn = "console_upgrade" /\ pc = "set_dl_server"
    /\ \E retval \in ExecuteAnswers :
        /\ ops' = ops \o <<Call("execute", cmd_dl_server, 0), Sleep(PaceSleep)>>
        /\ lastResp' = retval
    /\ Running("set_fw_filename")
    /\ UNCHANGED envVars
    /\ UNCHANGED consoleVars
    /\ UNCHANGED snmpVars

\* lines 53-59: dut.execute(<firmware filename>); time.sleep(2)
SetFwFilename ==
    /\ fn = "console_upgrade" /\ pc = "set_fw_filename"
    /\ \E retval \in ExecuteAnswers :
        /\ ops' = ops \o <<Call("execute", cmd_fw_filename(target_fw), 0), Sleep(PaceSleep)>>
        /\ lastResp' = retval
    /\ Running("trigger")
    /\ UNCHANGED envVars
    /\ UNCHANGED consoleVars
    /\ UNCHANGED snmpVars

\* lines 61-66: dut.execute(<download now>)
TriggerDownload ==
    /\ fn = "console_upgrade" /\ pc = "trigger"
    /\ \E retval \in ExecuteAnswers :
        /\ ops' = Append(ops, Call("execute", cmd_trigger, 0))
        /\ lastResp' = retval
    /\ Running("wait_reboot")
    /\ UNCHANGED envVars
    /\ UNCHANGED consoleVars
    /\ UNCHANGED snmpVars

\* lines 68-77: set_timeout(120); expect(reboot marker); on any exception return None
WaitReboot ==
    /\ fn = "console_upgrade" /\ pc = "wait_reboot"
    /\ timeout' = RebootTimeout
    /\ \E out \in RebootAnswers :
        /\ ops' = ops \o <<Call("set_timeout", "", RebootTimeout),
                           Call("expect", RebootMarker, 0)>>
        /\ lastResp' = out
        /\ reboot_seen' = (out = Returned)
        /\ IF ExpectFailed(out)
           THEN IF Catches(out.s) THEN Return("None", 77) ELSE Propagate(72)
           ELSE Running("settle")
    /\ UNCHANGED envVars
    /\ UNCHANGED <<dut_open, while_count, connected, prompt_seen>>
    /\ UNCHANGED snmpVars

\* the attempt counter is initialised once and kept from one call to the next
Settle_CounterKept ==
    /\ fn = "console_upgrade" /\ pc = "settle"
    /\ ops' = ops \o <<Sleep(SettleSleep), Call("set_timeout", "", PromptTimeout)>>
    /\ timeout' = PromptTimeout
    /\ while_count' = IF while_count = -1 THEN 0 ELSE while_count
    /\ Running("prompt_loop")
    /\ UNCHANGED envVars
    /\ UNCHANGED <<lastResp, dut_open, connected, reboot_seen, prompt_seen>>
    /\ UNCHANGED snmpVars

\* lines 79-85: time.sleep(120); set_timeout(5); while_count = 0
Settle ==
    /\ fn = "console_upgrade" /\ pc = "settle"
    /\ ops' = ops \o <<Sleep(SettleSleep), Call("set_timeout", "", PromptTimeout)>>
    /\ timeout' = PromptTimeout
    /\ while_count' = 0
    /\ Running("prompt_loop")
    /\ UNCHANGED envVars
    /\ UNCHANGED <<lastResp, dut_open, connected, reboot_seen, prompt_seen>>
    /\ UNCHANGED snmpVars

\* lines 86-97: one iteration of the prompt loop
PromptAttempt ==
    /\ fn = "console_upgrade" /\ pc = "prompt_loop"
    /\ PromptLoopCond(while_count)
    /\ \E a \in PromptAnswers :
        LET s == a.s
            e == a.e
        IN
        IF ExpectFailed(s) /\ ~Catches(s.s)
        THEN /\ ops' = Append(ops, Call("send", "\r", 0))
             /\ lastResp' = s
             /\ UNCHANGED <<while_count, prompt_seen>>
             /\ Propagate(88)
        ELSE IF ExpectFailed(s)
        THEN \* send raised: expect is skipped
             /\ ops' = ops \o <<Call("send", "\r", 0), Sleep(RetrySleep)>>
             /\ lastResp' = s
             /\ while_count' = while_count + 1
             /\ UNCHANGED prompt_seen
             /\ Running("prompt_loop")
        ELSE IF ExpectFailed(e) /\ ~Catches(e.s)
        THEN /\ ops' = ops \o <<Call("send", "\r", 0), Call("expect", LoginMarker, 0)>>
             /\ lastResp' = e
             /\ UNCHANGED <<while_count, prompt_seen>>
             /\ Propagate(89)
        ELSE IF ExpectFailed(e)
        THEN /\ ops' = ops \o <<Call("send", "\r", 0), Call("expect", LoginMarker, 0),
                                Sleep(RetrySleep)>>
             /\ lastResp' = e
             /\ while_count' = while_count + 1
             /\ UNCHANGED prompt_seen
             /\ Running("prompt_loop")
        ELSE \* else: break
             /\ ops' = ops \o <<Call("send", "\r", 0), Call("expect", LoginMarker, 0)>>
             /\ lastResp' = e
             /\ prompt_seen' = while_count + 1
             /\ UNCHANGED while_count
             /\ Running("cleanup")
    /\ UNCHANGED envVars
    /\ UNCHANGED <<dut_open, timeout, connected, reboot_seen>>
    /\ UNCHANGED snmpVars

\* lines 99-107: set_timeout(30); dut.close(); return None or True
Cleanup ==
    /\ fn = "console_upgrade"
    /\ \/ pc = "cleanup"
       \/ pc = "prompt_loop" /\ ~PromptLoopCond(while_count)
    /\ ops' = ops \o <<Call("set_timeout", "", DefaultTimeout), Call("close", "", 0)>>
    /\ timeout' = DefaultTimeout
    /\ dut_open' = FALSE
    /\ IF PromptOutcome(while_count) = "None" THEN Return("None", 104) ELSE Return("True", 107)
    /\ UNCHANGED envVars
    /\ UNCHANGED <<lastResp, while_count, connected, reboot_seen, prompt_seen>>
    /\ UNCHANGED snmpVars

ConsoleNext ==
    \/ Connect
    \/ SetDlServerUrl
    \/ SetFwFilename
    \/ TriggerDownload
    \/ WaitReboot
    \/ Settle
    \/ PromptAttempt
    \/ Cleanup

----------------------------------------------------------------------------
(* snmp_upgrade *)

\* lines 130-135: dut_snmp = snmp.SNMP(cm_ip); set and read back the HTTP mode
SnmpSetHttpMode ==
    /\ fn = "snmp_upgrade" /\ pc = "start"
    /\ \E ack \in SetAnswers, check \in CheckAnswers :
        /\ ops' = ops \o <<Set(oid_http_mode, Integer(HttpMode)), Get(oid_http_mode)>>
        /\ lastResp' = check
    /\ Running("set_fw_filename")
    /\ UNCHANGED envVars
    /\ UNCHANGED consoleVars
    /\ UNCHANGED snmpVars

\* lines 127, 137-140: target_fw = "firmware/" + target_fw; set and read back the FW path
SnmpSetFwFilename ==
    /\ fn = "snmp_upgrade" /\ pc = "set_fw_filename"
    /\ \E ack \in SetAnswers, check \in CheckAnswers :
        /\ ops' = ops \o <<Set(oid_fw_filename, OctetString(fw_path(target_fw))),
                           Get(oid_fw_filename)>>
        /\ lastResp' = check
    /\ Running("set_dl_server")
    /\ UNCHANGED envVars
    /\ UNCHANGED consoleVars
    /\ UNCHANGED snmpVars

\* lines 128, 142-145: set and read back the download server address
SnmpSetDlServer ==
    /\ fn = "snmp_upgrade" /\ pc = "set_dl_server"
    /\ \E ack \in SetAnswers, check \in CheckAnswers :
        /\ ops' = ops \o <<Set(oid_dl_server, IpAddress(ip_server)), Get(oid_dl_server)>>
        /\ lastResp' = check
    /\ Running("trigger")
    /\ UNCHANGED envVars
    /\ UNCHANGED consoleVars
    /\ UNCHANGED snmpVars

\* a trigger write without acknowledgement ends the upgrade
SnmpStartDl_AbortOnNoAck ==
    /\ fn = "snmp_upgrade" /\ pc = "trigger"
    /\ \E ack \in SetAnswers, check \in CheckAnswers :
        IF ack = None
        THEN /\ ops' = Append(ops, Set(oid_start_dl, Integer(StartDl)))
             /\ lastResp' = ack
             /\ Return("None", 148)
        ELSE /\ ops' = ops \o <<Set(oid_start_dl, Integer(StartDl)), Get(oid_start_dl)>>
             /\ lastResp' = check
             /\ Running("first_status")
    /\ UNCHANGED envVars
    /\ UNCHANGED consoleVars
    /\ UNCHANGED snmpVars

\* lines 147-150: set the download trigger to 1 and read it back
SnmpStartDl ==
    /\ fn = "snmp_upgrade" /\ pc = "trigger"
    /\ \E ack \in SetAnswers, check \in CheckAnswers :
        /\ ops' = ops \o <<Set(oid_start_dl, Integer(StartDl)), Get(oid_start_dl)>>
        /\ lastResp' = check
    /\ Running("first_status")
    /\ UNCHANGED envVars
    /\ UNCHANGED consoleVars
    /\ UNCHANGED snmpVars

\* lines 152-170: sleep(5); first status read; return None unless it is Integer 1;
\* sleep(60); while_counter = 0
FirstStatus ==
    /\ fn = "snmp_upgrade" /\ pc = "first_status"
    /\ \E v \in StatusAnswers :
        /\ lastResp' = v
        /\ first_status' = v
        /\ IF ~IsInteger(v)
           THEN /\ ops' = ops \o <<Sleep(FirstCheckSleep), Get(oid_dl_status)>>
                /\ UNCHANGED <<status, while_counter>>
                /\ Return("None", 159)
           ELSE IF NotStarted(v.i)
           THEN /\ ops' = ops \o <<Sleep(FirstCheckSleep), Get(oid_dl_status)>>
                /\ status' = v.i
                /\ UNCHANGED while_counter
                /\ Return("None", 164)
           ELSE /\ ops' = ops \o <<Sleep(FirstCheckSleep), Get(oid_dl_status),
                                   Sleep(StartSleep)>>
                /\ status' = v.i
                /\ while_counter' = 0
                /\ Running("monitor")
    /\ UNCHANGED envVars
    /\ UNCHANGED <<sys_descr>>
    /\ UNCHANGED consoleVars

\* lines 171-179: one iteration of the monitoring loop
StatusPoll ==
    /\ fn = "snmp_upgrade" /\ pc = "monitor"
    /\ MonitorCond(while_counter, status)
    /\ \E new_status \in StatusAnswers :
        /\ lastResp' = new_status
        /\ status' = NextStatus(status, new_status)
    /\ ops' = ops \o <<Get(oid_dl_status), Sleep(PollSleep)>>
    /\ while_counter' = while_counter + 1
    /\ Running("monitor")
    /\ UNCHANGED envVars
    /\ UNCHANGED <<sys_descr, first_status>>
    /\ UNCHANGED consoleVars

\* lines 181-187: after the loop: return None unless status is 3;
\* while_counter = 0; sys_descr = ""
CheckCompleted ==
    /\ fn = "snmp_upgrade" /\ pc = "monitor"
    /\ ~MonitorCond(while_counter, status)
    /\ IF NotCompleted(status)
       THEN /\ Return("None", 183)
            /\ UNCHANGED <<while_counter, sys_descr>>
       ELSE /\ while_counter' = 0
            /\ sys_descr' = ""
            /\ Running("confirm")
    /\ UNCHANGED envVars
    /\ UNCHANGED <<ops, lastResp, status, first_status>>
    /\ UNCHANGED consoleVars

\* lines 188-196: one iteration of the identity loop
DescrPoll ==
    /\ fn = "snmp_upgrade" /\ pc = "confirm"
    /\ ConfirmCond(while_counter, sys_descr)
    /\ \E v \in DescrAnswers :
        LET sd_value == Str(v) IN
        /\ lastResp' = v
        /\ IF HasDescr(sd_value)
           THEN /\ sys_descr' = sd_value
                /\ ops' = Append(ops, Get(oid_sys_descr))
                /\ UNCHANGED while_counter
                /\ Return("True", 193)
           ELSE /\ ops' = ops \o <<Get(oid_sys_descr), Sleep(PollSleep)>>
                /\ while_counter' = while_counter + 1
                /\ UNCHANGED sys_descr
                /\ Running("confirm")
    /\ UNCHANGED envVars
    /\ UNCHANGED <<status, first_status>>
    /\ UNCHANGED consoleVars

\* line 197: the identity loop ended without a value
ConfirmExhausted ==
    /\ fn = "snmp_upgrade" /\ pc = "confirm"
    /\ ~ConfirmCond(while_counter, sys_descr)
    /\ Return("None", 197)
    /\ UNCHANGED envVars
    /\ UNCHANGED <<ops, lastResp>>
    /\ UNCHANGED consoleVars
    /\ UNCHANGED snmpVars

SnmpNext ==
    \/ SnmpSetHttpMode
    \/ SnmpSetFwFilename
    \/ SnmpSetDlServer
    \/ SnmpStartDl
    \/ FirstStatus
    \/ StatusPoll
    \/ CheckCompleted
    \/ DescrPoll
    \/ ConfirmExhausted

----------------------------------------------------------------------------
Next == ConsoleNext \/ SnmpNext

Spec == Init /\ [][Next]_vars

\* The function runs on one thread and every transport call and sleep returns, so
\* the invocation always takes its next step.
SpecLive == Spec /\ WF_vars(Next)

\* lines 28, 39 / 110, 130: the caller invokes the same function again with the same
\* arguments.  The call builds a new transport object and a new frame whose locals
\* are unassigned; the model leaves the old values of the locals in place, so a
\* local read before its assignment would show as state carried over from the
\* first call.
Reinvoke ==
    /\ pc = "done" /\ call = 1
    /\ call' = 2
    /\ prev' = [result |-> result, returned_at |-> returned_at, ops |-> ops]
    /\ pc' = "start"
    /\ result' = "pending"
    /\ returned_at' = 0
    /\ ops' = <<>>
    /\ lastResp' = NoResp
    /\ dut_open' = FALSE
    /\ timeout' = 0
    /\ connected' = FALSE
    /\ reboot_seen' = FALSE
    /\ prompt_seen' = 0
    /\ first_status' = NoResp
    /\ UNCHANGED <<device, fn, target_fw, while_count, status, while_counter, sys_descr>>

NextTwice == Next \/ Reinvoke

\* the answers of the configuration phase turned into their opposite: a device
\* that answered every execute, execute_set and read-back now answers none of
\* them, and conversely; all its other answers are kept
Flipped(dev) ==
    [dev EXCEPT !.execute = IF @ = None THEN OctetString("Execution succeed.") ELSE None,
                !.ack = IF @ = None THEN Integer(1) ELSE None]

\* lines 28, 39 / 110, 130: as Reinvoke, but the second call meets a device whose
\* configuration-phase answers are flipped
ReinvokeFlipped ==
    /\ pc = "done" /\ call = 1
    /\ call' = 2
    /\ device' = Flipped(device)
    /\ prev' = [result |-> result, returned_at |-> returned_at, ops |-> ops]
    /\ pc' = "start"
    /\ result' = "pending"
    /\ returned_at' = 0
    /\ ops' = <<>>
    /\ lastResp' = NoResp
    /\ dut_open' = FALSE
    /\ timeout' = 0
    /\ connected' = FALSE
    /\ reboot_seen' = FALSE
    /\ prompt_seen' = 0
    /\ first_status' = NoResp
    /\ UNCHANGED <<fn, target_fw, while_count, status, while_counter, sys_descr>>

NextFlipped == Next \/ ReinvokeFlipped

SpecFlipped == InitTwice /\ [][NextFlipped]_vars

SpecTwice == InitTwice /\ [][NextTwice]_vars

----------------------------------------------------------------------------
(* console_upgrade: release of the session *)

\* C1: whenever console_upgrade has returned after a successful connect(), the
\* session has been closed exactly once and is no longer open.
C1_ClosedOnEveryExit ==
    (Console /\ Done /\ connected) => (Closes = 1 /\ ~dut_open)

\* C2: when all 4 prompt attempts have failed, console_upgrade has closed the
\* session exactly once and returns None, never True.
C2_ExhaustedClosesOnce ==
    (Console /\ Done /\ reboot_seen /\ prompt_seen = 0)
        => /\ Sends = PromptAttempts
           /\ Closes = 1
           /\ ~dut_open
           /\ ops[Len(ops)].op = "close"
           /\ result = "None"

C2_Witness ==
    /\ Console /\ Done /\ reboot_seen /\ prompt_seen = 0
    /\ Sends = PromptAttempts /\ LoginExpects < Sends
    /\ Closes = 1 /\ result = "None" /\ returned_at = 104

\* C3: if connect() fails, console_upgrade returns None and the connect is the
\* only call it ever issues: no execute, set_timeout, expect, send, sleep or close.
C3_FailedConnectIssuesNothing ==
    (Console /\ pc # "start" /\ ~connected)
        => /\ Done /\ result = "None"
           /\ Len(ops) = 1 /\ ops[1].op = "connect"

C3_Witness ==
    Console /\ Done /\ ~connected /\ lastResp = Bool(FALSE) /\ returned_at = 42

\* C4: if the wait for the reboot marker raises, console_upgrade returns None and
\* the prompt-retry loop is never reached: no 120 s settle sleep, no send, no
\* expect of "login:".
C4_NoRebootNoPromptLoop ==
    (Console /\ RebootExpects > 0 /\ ~reboot_seen)
        => /\ Done /\ result = "None"
           /\ ops[Len(ops)] = Call("expect", RebootMarker, 0)
           /\ CountSleep(ops, SettleSleep) = 0
           /\ Sends = 0
           /\ LoginExpects = 0
           /\ while_count = -1

C4_Witness ==
    /\ Console /\ Done /\ RebootExpects = 1 /\ ~reboot_seen
    /\ lastResp = Raised("EOFError") /\ returned_at = 77

----------------------------------------------------------------------------
(* snmp_upgrade *)

\* C6: if the first download-status read is not an Integer, or is an Integer other
\* than 1, snmp_upgrade returns None without entering the monitoring loop: that
\* read is the last call issued (no further status read, no 60 s sleep, no
\* system-description read).
C6_BadFirstStatusExits ==
    (Snmp /\ first_status # NoResp
          /\ (first_status.type # "Integer" \/ first_status.i # 1))
        => /\ Done /\ result = "None"
           /\ StatusReads = 1
           /\ ops[Len(ops)] = Get(oid_dl_status)
           /\ CountSleep(ops, StartSleep) = 0
           /\ CountSleep(ops, PollSleep) = 0
           /\ DescrReads = 0

C6_Witness ==
    /\ Snmp /\ Done /\ first_status = Integer(Completed)
    /\ result = "None" /\ StatusReads = 1

\* C7: once the tracked status is an integer other than 1, no further
\* download-status read is issued; and the monitoring loop issues at most 20
\* reads (21 with the read before the loop).
C7_LoopStopsOnTerminalStatus ==
    [][Snmp => /\ StatusReads' <= 1 + StatusPolls
               /\ (status # -1 /\ status # InProgress) => StatusReads' = StatusReads]_vars

C7_Witness ==
    /\ Snmp /\ status = 5 /\ first_status = Integer(InProgress)
    /\ StatusReads = 3 /\ Done

\* C8: if the tracked status after the monitoring loop is not 3, snmp_upgrade
\* returns None and issues no system-description read; a system-description read
\* is only ever issued with the tracked status at 3.
C8_NotCompletedExits ==
    /\ (Snmp /\ Done /\ status # Completed) => (result = "None" /\ DescrReads = 0)
    /\ (Snmp /\ (pc = "confirm" \/ DescrReads > 0)) => status = Completed

C8_Witness ==
    /\ Snmp /\ Done /\ status = InProgress /\ StatusReads = 1 + StatusPolls
    /\ lastResp = None /\ result = "None" /\ returned_at = 183 /\ DescrReads = 0

\* C9: once the tracked status is 3, a system-description read that yields a
\* non-empty value (a response whose text is not empty) makes snmp_upgrade return
\* True at once.
C9_NonEmptyIdentitySucceeds ==
    (Snmp /\ DescrReads > 0 /\ lastResp # None /\ Len(Str(lastResp)) > 0)
        => (Done /\ result = "True")

----------------------------------------------------------------------------
(* Both orchestrators: no state carried from one call to the next *)

\* C10: a second invocation with the same arguments against a device giving the
\* same sequence of answers issues the same calls in the same order as the first,
\* returns at the same return statement and returns the same value.
C10_SecondCallRepeatsFirst ==
    call = 2 =>
        /\ Len(ops) <= Len(prev.ops)
        /\ ops = SubSeq(prev.ops, 1, Len(ops))
        /\ Done => /\ ops = prev.ops
                   /\ result = prev.result
                   /\ returned_at = prev.returned_at

C10_Witness ==
    /\ call = 2 /\ Done /\ Console
    /\ prev.returned_at = 104 /\ returned_at = 104
    /\ Sends = PromptAttempts /\ ops = prev.ops

----------------------------------------------------------------------------
(* Termination *)

\* C11: whatever the device answers, every invocation reaches a return statement
\* and returns True or None, and no loop exceeds its budget: at most 4 prompt
\* attempts, at most 20 status polls (after the first read) and at most 20
\* identity polls.
C11_Terminates ==
    /\ [][/\ Sends' <= 4
          /\ StatusReads' <= 1 + 20
          /\ DescrReads' <= 20]_vars
    /\ <>(Done /\ result \in {"True", "None"})

C11_Witness ==
    /\ Snmp /\ Done /\ result = "None" /\ returned_at = 197
    /\ StatusReads = 1 + StatusPolls /\ DescrReads = DescrPolls

----------------------------------------------------------------------------
(* console_upgrade: exceptions of the pattern waits *)

\* C12: no exception of expect or send leaves console_upgrade.  Whatever its kind,
\* an exception of the reboot wait ends the call with None at line 77, and an
\* exception inside the prompt loop is followed by the 30 s sleep and counts as
\* one failed attempt; the call then returns None or goes on retrying.
C12_ExceptionsAreNotObserved ==
    Console =>
        /\ result # "raised"
        /\ lastResp.type = "raised" =>
              /\ result \in {"pending", "None"}
              /\ IF ~reboot_seen
                 THEN Done /\ result = "None" /\ returned_at = 77
                 ELSE /\ while_count >= 1 /\ prompt_seen = 0
                      /\ \/ pc = "prompt_loop" /\ ops[Len(ops)] = Sleep(30)
                         \/ Done /\ returned_at = 104 /\ while_count = 4

C12_Witness ==
    /\ Console /\ pc = "prompt_loop" /\ lastResp = Raised("EOFError")
    /\ while_count = 2 /\ Sends = 2 /\ LoginExpects = 1 /\ result = "pending"

----------------------------------------------------------------------------
(* Both orchestrators: nothing is configured after a fatal condition *)

\* a fatal condition has been observed by the current invocation
FatalObserved ==
    \/ Console /\ pc # "start" /\ ~connected
    \/ Console /\ RebootExpects > 0 /\ ~reboot_seen
    \/ Console /\ while_count = 4
    \/ Snmp /\ first_status # NoResp
            /\ (first_status.type # "Integer" \/ first_status.i # 1)
    \/ Snmp /\ status \notin {-1, 1, 3}
    \/ Snmp /\ StatusReads = 1 + 20 /\ status = 1
    \/ Snmp /\ DescrReads = 20 /\ sys_descr = ""

\* C13: once a fatal condition has been observed (failed connect, reboot marker
\* not observed, malformed or non-1 first status, terminal status other than 3,
\* exhausted polling budget), no further execute and no further execute_set is
\* issued, the call never returns True, and when it has returned it returned None.
C13_NothingIssuedAfterFatal ==
    [][/\ FatalObserved => /\ Executes' = Executes
                           /\ Sets' = Sets
                           /\ FatalObserved'
       /\ FatalObserved' => (result' # "True" /\ (Done' => result' = "None"))]_vars

C13_Witness ==
    /\ Snmp /\ Done /\ status = MaxStatus /\ StatusReads = 2
    /\ Sets = 4 /\ result = "None" /\ returned_at = 183

----------------------------------------------------------------------------
(* console_upgrade: the configuration commands *)

\* C14: after a successful connect the commands download-server URL, firmware
\* filename (with target_fw), download trigger are executed in this order, each
\* once; no answer of execute, None included, ends the call: it never returns
\* before all three commands and the reboot wait have been issued.  A call
\* against a device whose executes all return None issues the same calls and
\* returns the same value at the same line as a call against the same device
\* with every execute answered.
C14_ThreeCommandsInOrder ==
    LET commands ==
          <<"dmcli eRT setv Device.DeviceInfo.X_RDKCENTRAL-COM_FirmwareDownloadURL string https://gateway-dl.lab.nl.dmdsdp.com/",
            "dmcli eRT setv Device.DeviceInfo.X_RDKCENTRAL-COM_FirmwareToDownload string \"" \o target_fw \o "\"",
            "dmcli eRT setv Device.DeviceInfo.X_RDKCENTRAL-COM_FirmwareDownloadNow bool true">>
    IN /\ (Console /\ connected) =>
            /\ Len(ExecutedCommands) <= 3
            /\ ExecutedCommands = SubSeq(commands, 1, Len(ExecutedCommands))
            /\ RebootExpects <= 1
            /\ RebootExpects = 1 => ExecutedCommands = commands
            /\ Done => RebootExpects = 1
       /\ (Console /\ call = 2 /\ Done) =>
            /\ ops = prev.ops
            /\ result = prev.result
            /\ returned_at = prev.returned_at

C14_Witness ==
    /\ Console /\ call = 2 /\ Done /\ device.execute = None
    /\ Len(ExecutedCommands) = 3 /\ result = "True" /\ prev.result = "True"

----------------------------------------------------------------------------
(* console_upgrade: the prompt-retry loop *)

\* C15 as stated: every attempt is one send followed by one expect of "login:",
\* so there are as many expects of "login:" as sends.
C15_EverySendHasItsExpect ==
    Console => LoginExpects = Sends

\* C15, amended: at most 4 attempts; an attempt is one send followed by one expect
\* of "login:", or a send alone when the send itself raised; every unsuccessful
\* attempt, the 4th included, is followed by a 30 s sleep; the attempt that
\* observes the marker ends the loop and no send follows it.
C15_PromptLoopShape ==
    (Console /\ while_count >= 0) =>
        /\ Sends <= 4 /\ LoginExpects <= Sends
        /\ \A k \in 1..Len(ops) :
              /\ ops[k].op = "send" =>
                    /\ k < Len(ops)
                    /\ ops[k + 1] \in {Call("expect", "login:", 0), Sleep(30)}
              /\ ops[k] = Call("expect", "login:", 0) =>
                    /\ ops[k - 1].op = "send"
                    /\ \/ k = Len(ops) /\ prompt_seen # 0
                       \/ k < Len(ops) /\ ops[k + 1] = Sleep(30)
                       \/ k < Len(ops) /\ ops[k + 1] = Call("set_timeout", "", 30)
                                      /\ prompt_seen # 0
        /\ CountSleep(ops, 30) = while_count
        /\ Sends = while_count + (IF prompt_seen # 0 THEN 1 ELSE 0)
        /\ prompt_seen # 0 => (Sends = prompt_seen /\ pc \in {"cleanup", "done"})
        /\ (Done /\ prompt_seen = 0) => CountSleep(ops, 30) = 4

C15_Witness ==
    /\ Console /\ Done /\ prompt_seen = 0 /\ Sends = 4 /\ LoginExpects = 2
    /\ CountSleep(ops, 30) = 4 /\ lastResp = Raised("TimeoutError")

----------------------------------------------------------------------------
(* console_upgrade: the session timeout *)

\* C16: the timeout in force is 120 s at every expect of the reboot marker, 5 s at
\* every expect of "login:" and 30 s at close, whether the prompt loop ended with
\* the marker observed or with its budget exhausted; the variable agrees with the
\* latest set_timeout.
C16_TimeoutFollowsPhases ==
    Console =>
        /\ timeout = TimeoutAt(Len(ops) + 1)
        /\ \A k \in 1..Len(ops) :
              /\ ops[k] = Call("expect", "reboot: Restarting system", 0)
                    => TimeoutAt(k) = 120
              /\ ops[k] = Call("expect", "login:", 0) => TimeoutAt(k) = 5
              /\ ops[k].op = "send" => TimeoutAt(k) = 5
              /\ ops[k].op = "close" => TimeoutAt(k) = 30
        /\ (Done /\ reboot_seen) => (Closes = 1 /\ timeout = 30)

C16_Witness ==
    /\ Console /\ Done /\ result = "True" /\ timeout = 30
    /\ LoginExpects = 3 /\ RebootExpects = 1 /\ Closes = 1

----------------------------------------------------------------------------
(* console_upgrade: the settle period *)

\* C17: once the reboot marker has been observed, the 120 s sleep is taken
\* exactly once, directly after the expect that observed the marker, and every
\* send and every expect of "login:" comes after it; without the marker the
\* sleep is never taken.
C17_SettleBeforeContact ==
    Console =>
        /\ CountSleep(ops, 120) = (IF reboot_seen /\ pc # "settle" THEN 1 ELSE 0)
        /\ \A k \in 1..Len(ops) :
              /\ ops[k] = Sleep(120) =>
                    ops[k - 1] = Call("expect", "reboot: Restarting system", 0)
              /\ (ops[k].op = "send" \/ ops[k] = Call("expect", "login:", 0)) =>
                    \E j \in 1..(k - 1) : ops[j] = Sleep(120)

C17_Witness ==
    /\ Console /\ reboot_seen /\ Sends = 1 /\ LoginExpects = 1
    /\ CountSleep(ops, 120) = 1 /\ pc = "cleanup"

----------------------------------------------------------------------------
(* snmp_upgrade: the configuration writes *)

\* C18: the calls of snmp_upgrade begin with: set HTTP mode to Integer 2, read
\* it back, set the firmware filename to "firmware/" + target_fw, read it back,
\* set the download server address, read it back, set the download trigger to
\* Integer 1, read it back.  These are the only writes; every call after them is
\* a read or a sleep, and the first download-status read comes after them.
C18_WritesInOrder ==
    LET writes ==
          <<Set(oid_http_mode, Integer(2)), Get(oid_http_mode),
            Set(oid_fw_filename, OctetString("firmware/" \o target_fw)),
            Get(oid_fw_filename),
            Set(oid_dl_server, IpAddress("172.30.144.122")), Get(oid_dl_server),
            Set(oid_start_dl, Integer(1)), Get(oid_start_dl)>>
        n == IF Len(ops) < 8 THEN Len(ops) ELSE 8
    IN Snmp =>
        /\ SubSeq(ops, 1, n) = SubSeq(writes, 1, n)
        /\ Len(ops) % 2 = 0 \/ Len(ops) > 8
        /\ \A k \in 9..Len(ops) : ops[k].op \in {"execute_get", "sleep"}
        /\ \A k \in 1..Len(ops) : ops[k] = Get(oid_dl_status) => k > 8
        /\ Done => Sets = 4

C18_Witness ==
    /\ Snmp /\ Done /\ Sets = 4 /\ StatusReads = 4 /\ DescrReads = 1
    /\ result = "True" /\ ops[7] = Set(oid_start_dl, Integer(1))

----------------------------------------------------------------------------
(* snmp_upgrade: the monitoring loop *)

\* C19: a poll of the monitoring loop that returns None or a value that is not
\* an Integer leaves the tracked status as it was and does not end the call; a
\* poll that returns an Integer makes that integer the tracked status; every
\* poll, answered or not, adds one to the attempt counter and is followed by a
\* 30 s sleep; and with the tracked status at 3 the loop is left for the
\* identity phase, whatever is left of the budget.
C19_PollKeepsOrReplacesStatus ==
    [][Snmp =>
        /\ (pc = "monitor" /\ StatusReads' = StatusReads + 1) =>
              /\ status' = (IF lastResp'.type = "Integer" THEN lastResp'.i ELSE status)
              /\ lastResp'.type # "Integer" => status' = 1
              /\ while_counter' = while_counter + 1
              /\ ops' = ops \o <<Get(oid_dl_status), Sleep(30)>>
              /\ pc' = "monitor" /\ result' = "pending"
        /\ (pc = "monitor" /\ status = 3) =>
              (pc' = "confirm" /\ ops' = ops /\ result' = "pending")]_vars

C19_Witness ==
    /\ Snmp /\ pc = "confirm" /\ status = 3 /\ StatusReads = 1 + 20
    /\ lastResp = Integer(3) /\ DescrReads = 0

----------------------------------------------------------------------------
(* snmp_upgrade: the results of the writes are not used *)

\* C20: a call of snmp_upgrade against a device that acknowledges no set and
\* answers no read-back issues the same calls in the same order, and returns the
\* same value at the same line, as a call against a device that answers them all
\* and gives the same download-status and system-description answers.
C20_WriteResultsIgnored ==
    (Snmp /\ call = 2) =>
        /\ device.ack # Flipped(device).ack
        /\ Len(ops) <= Len(prev.ops)
        /\ ops = SubSeq(prev.ops, 1, Len(ops))
        /\ Done => /\ ops = prev.ops
                   /\ result = prev.result
                   /\ returned_at = prev.returned_at

C20_Witness ==
    /\ Snmp /\ call = 2 /\ Done /\ device.ack = None
    /\ result = "True" /\ prev.result = "True" /\ Sets = 4 /\ DescrReads = 2

====
